---- MODULE Spec2Model ----
(***************************************************************************)
(* Model of nassl/_nassl/nassl_SSL.c: the _nassl.SSL Python object, its    *)
(* ownership of the SSL_CTX wrapper, of the network BIO wrapper and of the *)
(* native SSL structure, and the thin wrappers over the OpenSSL calls.     *)
(*                                                                         *)
(* The OpenSSL engine is an external library: every engine call is an      *)
(* outcome set (a nondeterministic choice of result code, error class,     *)
(* pushed error-queue entry and next engine state).  The wrappers are      *)
(* translated from the C code.                                             *)
(***************************************************************************)
EXTENDS Integers, Sequences, FiniteSets, TLC

\* ------------------------------------------------------------------------
\* Universe
\* ------------------------------------------------------------------------
NULL == "NULL"

\* _nassl.SSL objects (each slot is allocated at most once)
Conns == {"c1", "c2"}

\* _nassl.SSL_CTX objects built by the caller
Ctxs == {"ctxA"}

\* _nassl.BIO objects built by the caller: the network halves and the
\* internal halves of the BIO pairs
NetBIOs == {"n1", "n2"}

IntBIOs == {"i1", "i2"}

BIOs == NetBIOs \cup IntBIOs

\* bound on the BIO references one SSL object takes through
\* set_network_bio_to_free_when_dealloc
MaxAdopt == 2

\* bound on the number of native frees of one BIO that set_bio may add to
MaxFrees == 1

\* bound on the number of entries left in the engine's error queue between calls
MaxQueue == 1

\* largest read size / write size tried
MaxLen == 1

VARIABLES
    obj,          \* obj[c]: the nassl_SSL_Object fields and its allocation state
    eng,          \* eng[c]: the native SSL structure behind obj[c].ssl
    ctxRefcnt,    \* ob_refcnt of each SSL_CTX wrapper
    bioRefcnt,    \* ob_refcnt of each BIO wrapper
    bioPtr,       \* wrapper->bio is non-NULL
    bioFreeCount, \* number of times the native BIO of a wrapper was freed
    refsTaken,    \* refsTaken[c][b]: Py_INCREFs obj[c] did on BIO wrapper b
    refsDropped,  \* refsDropped[c][b]: Py_DECREFs obj[c] did on BIO wrapper b
    relLog,       \* relLog[c]: what tp_dealloc of obj[c] released, in order
    errQueue,     \* the engine's (thread-wide) error queue
    ret,          \* what the last call returned to the caller
    env,          \* the build variant and what the peer and the caller bring
    x509Refcnt,   \* x509Refcnt[c][i]: references on the i-th X509 of c's peer
    sessRefcnt,   \* sessRefcnt[s]: references on SSL_SESSION s
    held          \* the X509 and SSL_SESSION wrappers the caller holds

vars == <<obj, eng, ctxRefcnt, bioRefcnt, bioPtr, bioFreeCount, refsTaken,
          refsDropped, relLog, errQueue, ret, env, x509Refcnt, sessRefcnt,
          held>>

\* what most calls of the SSL object leave alone
aux == <<env, x509Refcnt, sessRefcnt, held>>

\* bound on the wrappers of one kind the caller holds at a time
MaxHeld == 2

\* largest read size / write size tried where the sizes are what is looked at
MaxIO == 2

\* the SSL_SESSION objects: the one the handshake of each SSL object
\* creates, and one the caller got from a connection made earlier
SessionIds == Conns \cup {"ext"}

\* SSL_get_peer_cert_chain() answers NULL or a stack of certificates
NoChain == [null |-> TRUE, certs |-> <<>>]

Chain(certs) == [null |-> FALSE, certs |-> certs]

\* positions in a peer chain
ChainIdx == {1, 2}

RECURSIVE SumOver(_, _)
SumOver(S, f) ==
    IF S = {} THEN 0
    ELSE LET x == CHOOSE y \in S : TRUE IN f[x] + SumOver(S \ {x}, f)

\* ------------------------------------------------------------------------
\* Records
\* ------------------------------------------------------------------------
\* the object after tp_alloc and lines 47-49
NewObject == [st |-> "unborn", ssl |-> FALSE, sslCtx_Object |-> NULL,
              networkBio_Object |-> NULL]

\* the native structure as SSL_new returns it: no BIO, no role, the
\* verification mode and the cipher list of the SSL_CTX, no cipher yet;
\* netOut counts the handshake flights the engine wrote that wait in the
\* network endpoint of its BIO pair, netIn those delivered to that endpoint
\* and not yet read
NewEngine == [rbio |-> NULL, hs |-> "Unconnected", client |-> FALSE,
              closeNotifies |-> 0, verify_mode |-> 0, new_cipher |-> NULL,
              cipher |-> NULL, cipher_list |-> env.ctxCiphers,
              peer_chain |-> NoChain, session |-> NULL,
              netIn |-> 0, netOut |-> 0, ca_names |-> <<>>]

NoEngine == [rbio |-> NULL, hs |-> "None", client |-> FALSE,
             closeNotifies |-> 0, verify_mode |-> 0, new_cipher |-> NULL,
             cipher |-> NULL, cipher_list |-> <<>>,
             peer_chain |-> NoChain, session |-> NULL,
             netIn |-> 0, netOut |-> 0, ca_names |-> <<>>]

\* what a call hands back: the Python result (kind, val, and diag: the
\* diagnostic of an exception or the text of a result), the raw engine
\* result (res), the engine state the call started from (pre) and the text
\* argument the call was given (arg); calls counts the invocations of the
\* engine's I/O primitive the call made; made counts the native objects the
\* call created or took a reference on, given those of them inside the
\* value it returned, freed those it released before it returned
Ret(c, op, kind, val, res, pre, diag) ==
    [c |-> c, op |-> op, kind |-> kind, val |-> val, res |-> res,
     pre |-> pre, diag |-> diag, arg |-> <<>>, calls |-> 0,
     made |-> 0, given |-> 0, freed |-> 0]

\* the build without LEGACY_OPENSSL, a peer that agrees on the first cipher
\* of the SSL_CTX, a caller that passes that same cipher string; loopback
\* tells whether the peer of an SSL object is the other SSL object, clientCAs
\* the CA names the peer sends when it asks for a client certificate
PlainEnv == [legacy |-> FALSE, loopback |-> FALSE, clientCAs |-> <<>>,
             negotiated |-> "c_aes",
             ctxCiphers |-> <<"c_aes">>, cipherStrings |-> {<<"c_aes">>},
             peerChain |-> Chain(<<"leaf", "ca">>)]

\* no SSL object allocated yet
InitObjects ==
    /\ obj = [c \in Conns |-> NewObject]
    /\ eng = [c \in Conns |-> NoEngine]
    /\ ctxRefcnt = [x \in Ctxs |-> 1]
    /\ bioRefcnt = [b \in BIOs |-> 1]
    /\ bioPtr = [b \in BIOs |-> TRUE]
    /\ bioFreeCount = [b \in BIOs |-> 0]
    /\ refsTaken = [c \in Conns |-> [b \in NetBIOs |-> 0]]
    /\ refsDropped = [c \in Conns |-> [b \in NetBIOs |-> 0]]
    /\ relLog = [c \in Conns |-> <<>>]
    /\ errQueue = <<>>
    /\ ret = Ret(NULL, "none", "None", 0, 0, "None", <<>>)
    /\ x509Refcnt = [c \in Conns |-> [i \in ChainIdx |-> 0]]
    /\ sessRefcnt = [s \in SessionIds |-> IF s = "ext" THEN 1 ELSE 0]
    /\ held = [x509 |-> [c \in Conns |-> [i \in ChainIdx |-> 0]], copies |-> 0,
               sess |-> [s \in SessionIds |-> IF s = "ext" THEN 1 ELSE 0]]

Init == InitObjects /\ env = PlainEnv

\* ------------------------------------------------------------------------
\* nassl_errors.c: the Error Classifier
\* ------------------------------------------------------------------------
\* raise_OpenSSL_error(): the exception built from the drained error queue
raise_OpenSSL_error(c, op, res, pre, q) ==
    Ret(c, op, "OpenSSLError", 0, res, pre, q)

\* the classification of SSL_get_error()'s answer
ClassOf(err) ==
    CASE err = "WANT_READ" -> "WantRead"
      [] err = "WANT_WRITE" -> "WantWrite"
      [] err = "ZERO_RETURN" -> "ZeroReturn"
      [] err = "SYSCALL" -> "SyscallError"
      [] OTHER -> "ProtocolError"

\* raise_OpenSSL_ssl_error(ssl, result): the classified exception; the
\* diagnostic is the drained error queue
raise_OpenSSL_ssl_error(c, op, res, err, pre, q) ==
    Ret(c, op, ClassOf(err), 0, res, pre,
        IF ClassOf(err) = "ProtocolError" THEN q ELSE <<>>)

\* ------------------------------------------------------------------------
\* tp_dealloc, lines 80-107
\* ------------------------------------------------------------------------
\* line 82
DeallocDropsNetBio(o) == o.networkBio_Object # NULL

\* lines 82-84
DeallocFreesNetBio(o) ==
    DeallocDropsNetBio(o) /\ bioPtr[o.networkBio_Object]

\* SSL_free without the NULL test of line 95
DeallocFreesSsl_unguarded(o) == TRUE

\* line 95
DeallocFreesSsl(o) == o.ssl

\* dealloc without the Py_DECREF of line 104
DeallocDropsCtx_forgotten(o) == FALSE

\* line 102
DeallocDropsCtx(o) == o.sslCtx_Object # NULL

\* dealloc dropping the SSL_CTX reference before it frees the SSL
DeallocOrder_ctxFirst(o, e) ==
    (IF o.sslCtx_Object # NULL THEN <<"DECREF_sslCtx">> ELSE <<>>)
    \o (IF o.networkBio_Object # NULL /\ bioPtr[o.networkBio_Object]
        THEN <<"BIO_vfree">> ELSE <<>>)
    \o (IF o.networkBio_Object # NULL THEN <<"DECREF_networkBio">> ELSE <<>>)
    \o (IF o.ssl
        THEN <<"SSL_free">> \o (IF e.rbio # NULL THEN <<"free_rbio">> ELSE <<>>)
        ELSE <<>>)

\* the releases of nassl_SSL_dealloc in program order; SSL_free frees the
\* BIO bound to the SSL within the same call (comment at line 97)
DeallocOrder(o, e) ==
    (IF DeallocFreesNetBio(o) THEN <<"BIO_vfree">> ELSE <<>>)
    \o (IF DeallocDropsNetBio(o) THEN <<"DECREF_networkBio">> ELSE <<>>)
    \o (IF DeallocFreesSsl(o)
        THEN <<"SSL_free">> \o (IF e.rbio # NULL THEN <<"free_rbio">> ELSE <<>>)
        ELSE <<>>)
    \o (IF DeallocDropsCtx(o) THEN <<"DECREF_sslCtx">> ELSE <<>>)

\* number of native frees that dealloc of object o (engine e) does on BIO b:
\* BIO_vfree of the network BIO (line 88) and SSL_free, which frees the BIO
\* bound to the SSL (line 98)
FreesOf(o, e, b) ==
    (IF DeallocFreesNetBio(o) /\ o.networkBio_Object = b THEN 1 ELSE 0)
    + (IF DeallocFreesSsl(o) /\ e.rbio = b THEN 1 ELSE 0)

\* the engine holds a reference on the i-th certificate of the peer
HasPeerCert(e, i) == ~e.peer_chain.null /\ i <= Len(e.peer_chain.certs)

\* SSL_free(), line 98, drops the engine's reference on the certificates of
\* the peer and on the session
SslFreeDropsX509(o, e, i) ==
    IF DeallocFreesSsl(o) /\ HasPeerCert(e, i) THEN 1 ELSE 0

SslFreeDropsSession(o, e, s) ==
    IF DeallocFreesSsl(o) /\ e.session = s THEN 1 ELSE 0

\* the effect of nassl_SSL_dealloc on everything but obj, eng and ret; rc
\* is the SSL_CTX reference counts when dealloc starts
DeallocEffects(c, o, e, rc) ==
    /\ x509Refcnt' = [x509Refcnt EXCEPT ![c] =
                        [i \in ChainIdx |-> @[i] - SslFreeDropsX509(o, e, i)]]
    /\ sessRefcnt' = [s \in SessionIds |->
                        sessRefcnt[s] - SslFreeDropsSession(o, e, s)]
    /\ bioFreeCount' = [b \in BIOs |-> bioFreeCount[b] + FreesOf(o, e, b)]
    /\ bioPtr' = [b \in BIOs |->
                    IF DeallocFreesNetBio(o) /\ o.networkBio_Object = b
                    THEN FALSE ELSE bioPtr[b]]
    /\ bioRefcnt' = [b \in BIOs |->
                    IF DeallocDropsNetBio(o) /\ o.networkBio_Object = b
                    THEN bioRefcnt[b] - 1 ELSE bioRefcnt[b]]
    /\ refsDropped' = [refsDropped EXCEPT ![c] =
                    [b \in NetBIOs |->
                       IF DeallocDropsNetBio(o) /\ o.networkBio_Object = b
                       THEN refsDropped[c][b] + 1 ELSE refsDropped[c][b]]]
    /\ ctxRefcnt' = [x \in Ctxs |->
                    IF DeallocDropsCtx(o) /\ o.sslCtx_Object = x
                    THEN rc[x] - 1 ELSE rc[x]]
    /\ relLog' = [relLog EXCEPT ![c] = DeallocOrder(o, e)]

\* the last reference to the SSL object is dropped
nassl_SSL_dealloc(c) ==
    /\ obj[c].st = "alive"
    /\ DeallocEffects(c, obj[c], eng[c], ctxRefcnt)
    /\ obj' = [obj EXCEPT ![c] = [st |-> "dead", ssl |-> FALSE,
                                  sslCtx_Object |-> obj[c].sslCtx_Object,
                                  networkBio_Object |-> NULL]]
    /\ eng' = [eng EXCEPT ![c] = NoEngine]
    /\ ret' = Ret(c, "dealloc", "None", 0, 0,
                  IF ret.c = c THEN ret.op ELSE "other", <<>>)
    /\ UNCHANGED <<env, held, refsTaken, errQueue>>

\* ------------------------------------------------------------------------
\* tp_new, lines 35-77
\* ------------------------------------------------------------------------
\* lines 52-56: the argument is not an SSL_CTX object; the fresh object is
\* released with its three pointers NULL
nassl_SSL_new_badarg(c) ==
    /\ obj[c].st = "unborn"
    /\ DeallocEffects(c, NewObject, NoEngine, ctxRefcnt)
    /\ obj' = [obj EXCEPT ![c] = [NewObject EXCEPT !.st = "dead"]]
    /\ ret' = Ret(c, "new", "TypeError", 0, 0, "None", <<>>)
    /\ UNCHANGED <<env, held, eng, refsTaken, errQueue>>

\* lines 64-71: SSL_new fails after Py_INCREF(sslCtx_Object); the object is
\* released while self->sslCtx_Object is still NULL
nassl_SSL_new_fail(c, x) ==
    /\ obj[c].st = "unborn"
    /\ ctxRefcnt[x] > 0
    /\ DeallocEffects(c, NewObject, NoEngine,
                      [ctxRefcnt EXCEPT ![x] = @ + 1])
    /\ obj' = [obj EXCEPT ![c] = [NewObject EXCEPT !.st = "dead"]]
    /\ errQueue' = <<>>
    /\ ret' = raise_OpenSSL_error(c, "new", 0, "None", Append(errQueue, "new"))
    /\ UNCHANGED <<env, held, eng, refsTaken>>

\* lines 64-76: success
nassl_SSL_new(c, x) ==
    /\ obj[c].st = "unborn"
    /\ ctxRefcnt[x] > 0
    /\ ctxRefcnt' = [ctxRefcnt EXCEPT ![x] = @ + 1]
    /\ obj' = [obj EXCEPT ![c] = [st |-> "alive", ssl |-> TRUE,
                                  sslCtx_Object |-> x,
                                  networkBio_Object |-> NULL]]
    /\ eng' = [eng EXCEPT ![c] = NewEngine]
    /\ ret' = Ret(c, "new", "ok", ctxRefcnt[x], 1, "None", <<>>)
    /\ UNCHANGED <<aux, bioRefcnt, bioPtr, bioFreeCount, refsTaken, refsDropped,
                   relLog, errQueue>>

\* ------------------------------------------------------------------------
\* set_bio, lines 110-119
\* ------------------------------------------------------------------------
\* SSL_set_bio(ssl, bio, bio): both directions are bound to bio.  Whether a
\* different BIO bound before is freed is the engine's choice.
SSL_set_bio(e, b) ==
    { [eng |-> [e EXCEPT !.rbio = b], freed |-> f] :
        f \in (IF e.rbio # NULL /\ e.rbio # b /\ bioFreeCount[e.rbio] < MaxFrees
               THEN {NULL, e.rbio} ELSE {NULL}) }

nassl_SSL_set_bio(c, b) ==
    /\ obj[c].st = "alive"
    /\ bioRefcnt[b] > 0
    /\ \E o \in SSL_set_bio(eng[c], b) :
         /\ eng' = [eng EXCEPT ![c] = o.eng]
         /\ bioFreeCount' = [y \in BIOs |->
                IF y = o.freed THEN bioFreeCount[y] + 1 ELSE bioFreeCount[y]]
    /\ ret' = Ret(c, "set_bio", "None", 0, 1, eng[c].hs, <<>>)
    /\ UNCHANGED <<aux, obj, ctxRefcnt, bioRefcnt, bioPtr, refsTaken, refsDropped,
                   relLog, errQueue>>

\* lines 113-116: the argument is not a BIO object
nassl_SSL_set_bio_badarg(c) ==
    /\ obj[c].st = "alive"
    /\ ret' = Ret(c, "set_bio", "TypeError", 0, 0, eng[c].hs, <<>>)
    /\ UNCHANGED <<aux, obj, eng, ctxRefcnt, bioRefcnt, bioPtr, bioFreeCount,
                   refsTaken, refsDropped, relLog, errQueue>>

\* ------------------------------------------------------------------------
\* set_network_bio_to_free_when_dealloc, lines 122-135
\* ------------------------------------------------------------------------
\* lines 132-133: the Py_DECREFs done on the wrapper held before (none)
AdoptDrops(old, b) == [y \in NetBIOs |-> 0]

nassl_SSL_set_network_bio_to_free_when_dealloc(c, b) ==
    /\ obj[c].st = "alive"
    /\ bioRefcnt[b] > 0
    /\ SumOver(NetBIOs, refsTaken[c]) < MaxAdopt
    /\ refsTaken' = [refsTaken EXCEPT ![c][b] = @ + 1]
    /\ refsDropped' = [refsDropped EXCEPT ![c] =
          [y \in NetBIOs |-> @[y] + AdoptDrops(obj[c].networkBio_Object, b)[y]]]
    /\ bioRefcnt' = [y \in BIOs |->
          IF y \in NetBIOs
          THEN bioRefcnt[y] + (IF y = b THEN 1 ELSE 0)
                            - AdoptDrops(obj[c].networkBio_Object, b)[y]
          ELSE bioRefcnt[y]]
    /\ obj' = [obj EXCEPT ![c].networkBio_Object = b]
    /\ ret' = Ret(c, "set_network_bio", "None", 0, 1, eng[c].hs, <<>>)
    /\ UNCHANGED <<aux, eng, ctxRefcnt, bioPtr, bioFreeCount, relLog, errQueue>>

\* ------------------------------------------------------------------------
\* set_connect_state, lines 138-142
\* ------------------------------------------------------------------------
nassl_SSL_set_connect_state(c) ==
    /\ obj[c].st = "alive"
    /\ eng[c].hs = "Unconnected"
    /\ eng' = [eng EXCEPT ![c].client = TRUE]
    /\ ret' = Ret(c, "set_connect_state", "None", 0, 1, eng[c].hs, <<>>)
    /\ UNCHANGED <<aux, obj, ctxRefcnt, bioRefcnt, bioPtr, bioFreeCount, refsTaken,
                   refsDropped, relLog, errQueue>>

\* ------------------------------------------------------------------------
\* The engine calls: each is the set of outcomes the engine may produce.
\* res is the returned integer, err what SSL_get_error() then answers, hs
\* the connection state the engine is in afterwards, push whether the engine
\* appended an entry to its error queue, cn the close notifications sent.
\* ------------------------------------------------------------------------
Out(res, err, hs, push, cn) ==
    [res |-> res, err |-> err, hs |-> hs, push |-> push, cn |-> cn]

\* a fatal outcome: a protocol failure (with an error-queue entry) or a
\* transport failure (without)
Fatal(e, results) ==
    { Out(r, "SSL", "Faulted", TRUE, e.closeNotifies) : r \in results }
    \cup { Out(-1, "SYSCALL", "Faulted", FALSE, e.closeNotifies) }

\* blocked on the transport: nothing changes but the given state
Want(e, errs, hs) ==
    { Out(-1, w, hs, FALSE, e.closeNotifies) : w \in errs }

\* SSL_do_handshake(), line 160, of an SSL object whose peer is the other SSL
\* object. Without a role it fails with "connection type not set" in the
\* error queue. A client writes its first flight and waits for the server's;
\* the only flight that can reach it is the first flight of the other
\* client (line 140 gives the only role there is), which it refuses as an
\* unexpected message.
LoopbackHandshake(e) ==
    CASE ~e.client -> { Out(-1, "SSL", "Faulted", TRUE, e.closeNotifies) }
      [] e.hs \in {"Unconnected", "Handshaking"} /\ e.netIn = 0 ->
            { Out(-1, "WANT_READ", "Handshaking", FALSE, e.closeNotifies) }
      [] e.hs \in {"Unconnected", "Handshaking"} /\ e.netIn > 0 ->
            { Out(-1, "SSL", "Faulted", TRUE, e.closeNotifies) }
      [] OTHER -> { Out(-1, "SSL", "Faulted", TRUE, e.closeNotifies) }

\* the flights in the network endpoint after a do_handshake with outcome o:
\* the first call of a client writes its first flight, a call that met a
\* delivered flight has read it
HandshakeWire(e, o) ==
    IF ~env.loopback \/ e.rbio = NULL \/ ~e.client
    THEN [netIn |-> e.netIn, netOut |-> e.netOut]
    ELSE [netIn |-> 0,
          netOut |-> IF e.hs = "Unconnected" THEN 1 ELSE e.netOut]

\* SSL_do_handshake(), line 160: it fails when the role of the SSL was not
\* set (the only role an SSL object can be given is the client's, line 140)
\* or no BIO is bound
SSL_do_handshake(e) ==
    CASE env.loopback /\ e.rbio # NULL -> LoopbackHandshake(e)
      [] ~e.client \/ e.rbio = NULL -> Fatal(e, {-1})
      [] e.hs \in {"Unconnected", "Handshaking"} ->
            { Out(1, "NONE", "Established", FALSE, e.closeNotifies) }
            \cup Want(e, {"WANT_READ", "WANT_WRITE"}, "Handshaking")
            \cup Fatal(e, {0, -1})
      [] e.hs = "Established" ->
            { Out(1, "NONE", "Established", FALSE, e.closeNotifies) }
      [] OTHER -> Fatal(e, {-1})

\* a handler that calls the primitive again for as long as it is blocked
EngineCall_retry(outs) ==
    { [o |-> x, calls |-> 2] :
        x \in { y \in outs : y.err \notin {"WANT_READ", "WANT_WRITE"} } }

\* lines 160, 186, 214, 240, 271: the handler calls the primitive once and
\* takes what it answers
EngineCall(outs) == { [o |-> x, calls |-> 1] : x \in outs }

\* SSL_read(), line 186
SSL_read(e, n) ==
    CASE e.hs = "Established" ->
            { Out(k, "NONE", "Established", FALSE, e.closeNotifies) : k \in 1..n }
            \cup Want(e, {"WANT_READ", "WANT_WRITE"}, "Established")
            \cup { Out(0, "ZERO_RETURN", "Closed", FALSE, e.closeNotifies) }
            \cup Fatal(e, {-1})
      [] e.hs = "Closed" ->
            { Out(0, "ZERO_RETURN", "Closed", FALSE, e.closeNotifies) }
      [] OTHER -> Fatal(e, {-1})

\* SSL_write(), line 214: the number of bytes taken, at most n
SSL_write(e, n) ==
    CASE e.hs = "Established" ->
            { Out(k, "NONE", "Established", FALSE, e.closeNotifies) : k \in 1..n }
            \cup Want(e, {"WANT_READ", "WANT_WRITE"}, "Established")
            \cup Fatal(e, {0, -1})
      [] OTHER -> Fatal(e, {-1})

\* SSL_write_early_data(), line 240: 1 when all n bytes were taken as early
\* data, 0 otherwise; it is refused once the handshake is over
SSL_write_early_data(e, n) ==
    CASE e.client /\ e.rbio # NULL /\ e.hs \in {"Unconnected", "Handshaking"} ->
            { Out(1, "NONE", "Handshaking", FALSE, e.closeNotifies) }
            \cup Want(e, {"WANT_READ", "WANT_WRITE"}, "Handshaking")
            \cup Fatal(e, {0})
      [] OTHER -> { Out(0, "SSL", e.hs, TRUE, e.closeNotifies) }

\* SSL_shutdown(), line 271: the first call sends the close notification and
\* answers 0; a later call answers 1 once the peer's notification was read
\* and asks for more input until then
SSL_shutdown(e) ==
    CASE e.hs = "Established" ->
            { Out(0, "NONE", "ShuttingDown", FALSE, e.closeNotifies + 1),
              Out(-1, "WANT_WRITE", "ShuttingDown", FALSE, e.closeNotifies + 1) }
            \cup Fatal(e, {-1})
      [] e.hs = "ShuttingDown" ->
            { Out(1, "NONE", "Closed", FALSE, e.closeNotifies) }
            \cup Want(e, {"WANT_READ", "WANT_WRITE"}, "ShuttingDown")
            \cup Fatal(e, {-1})
      [] e.hs = "Closed" ->
            { Out(1, "NONE", "Closed", FALSE,
                  IF e.closeNotifies = 0 THEN 1 ELSE e.closeNotifies) }
      [] OTHER ->
            (IF e.closeNotifies = 0
             THEN { Out(0, "NONE", "ShuttingDown", FALSE, 1) } ELSE {})
            \cup Fatal(e, {-1})

\* SSL_renegotiate(), line 655: 1 when the renegotiation is scheduled, 0
\* (with an error-queue entry) when it is refused
SSL_renegotiate(e) ==
    { Out(1, "NONE", e.hs, FALSE, e.closeNotifies),
      Out(0, "SSL", e.hs, TRUE, e.closeNotifies) }

\* SSL_set_session(), line 691, and SSL_set_cipher_list(), line 437:
\* 1 on success, 0 (with an error-queue entry) when the engine rejects
SSL_set_session(e) ==
    { Out(1, "NONE", e.hs, FALSE, e.closeNotifies),
      Out(0, "SSL", e.hs, TRUE, e.closeNotifies) }

SSL_set_cipher_list(e) ==
    { Out(1, "NONE", e.hs, FALSE, e.closeNotifies),
      Out(0, "SSL", e.hs, TRUE, e.closeNotifies) }

\* the cipher list of the SSL after SSL_set_cipher_list(str) answered res,
\* str selecting the ciphers l: a string that selects no cipher is refused
\* and leaves the list empty
CipherListAfter(e, l, res) ==
    IF res = 1 \/ l = <<>> THEN l ELSE e.cipher_list

\* the engine's step on the native structure and on the error queue
EngineStep(c, o) == [eng EXCEPT ![c].hs = o.hs, ![c].closeNotifies = o.cn]

\* the cipher the handshake has chosen (s3->tmp.new_cipher) and the cipher of
\* the session after a do_handshake with outcome o: nothing is chosen before
\* the peer's first answer was read; a finished handshake has committed it
HandshakeCiphers(e, o) ==
    CASE o.hs = "Established" ->
            { [new_cipher |-> env.negotiated, cipher |-> env.negotiated] }
      [] o.hs = "Handshaking" /\ e.hs = "Handshaking" /\ ~env.loopback ->
            { [new_cipher |-> k, cipher |-> e.cipher] :
                k \in {e.new_cipher, env.negotiated} }
      [] OTHER -> { [new_cipher |-> e.new_cipher, cipher |-> e.cipher] }

\* the handshake completes with outcome o
HandshakeCompletes(e, o) == o.hs = "Established" /\ e.hs # "Established"

\* the session of SSL c after a do_handshake with outcome o: a completed
\* handshake resumed the session installed by SSL_set_session or made c's own
HandshakeSessions(c, e, o) ==
    IF HandshakeCompletes(e, o)
    THEN (IF e.session = NULL THEN {c} ELSE {e.session, c})
    ELSE {e.session}

\* the references on the sessions after SSL_set_session or a handshake made
\* s the session of an SSL whose session was old
SessionSwap(old, s) ==
    [x \in SessionIds |->
       sessRefcnt[x] + (IF x = s /\ s # old THEN 1 ELSE 0)
                     - (IF x = old /\ s # old THEN 1 ELSE 0)]

\* the engine keeps the certificates the peer sent, one reference on each
HandshakePeer(c, e, o) ==
    IF HandshakeCompletes(e, o)
    THEN [chain |-> env.peerChain,
          refs |-> [i \in ChainIdx |->
                      IF ~env.peerChain.null /\ i <= Len(env.peerChain.certs)
                      THEN 1 ELSE x509Refcnt[c][i]]]
    ELSE [chain |-> e.peer_chain, refs |-> x509Refcnt[c]]

\* the CA names the engine holds after a do_handshake with outcome o: a
\* completed handshake has stored the names the peer sent
HandshakeCAs(e, o) ==
    IF HandshakeCompletes(e, o) THEN env.clientCAs ELSE e.ca_names

Pushed(o, tag) == IF o.push THEN Append(errQueue, tag) ELSE errQueue

\* ------------------------------------------------------------------------
\* do_handshake, lines 158-166
\* ------------------------------------------------------------------------
\* a test that takes every non-negative result for success
DoHandshakeSucceeds_nonneg(result) == result >= 0

\* line 161
DoHandshakeSucceeds(result) == result = 1

nassl_SSL_do_handshake(c) ==
    /\ obj[c].st = "alive"
    /\ eng[c].hs \in {"Unconnected", "Handshaking", "Established", "Faulted"}
    /\ \E r \in EngineCall(SSL_do_handshake(eng[c])) :
       LET o == r.o IN
         /\ \E k \in HandshakeCiphers(eng[c], o),
               s \in HandshakeSessions(c, eng[c], o) :
               /\ eng' = [EngineStep(c, o) EXCEPT
                            ![c].new_cipher = k.new_cipher,
                            ![c].cipher = k.cipher,
                            ![c].peer_chain = HandshakePeer(c, eng[c], o).chain,
                            ![c].session = s,
                            ![c].ca_names = HandshakeCAs(eng[c], o),
                            ![c].netIn = HandshakeWire(eng[c], o).netIn,
                            ![c].netOut = HandshakeWire(eng[c], o).netOut]
               /\ sessRefcnt' = SessionSwap(eng[c].session, s)
         /\ x509Refcnt' = [x509Refcnt EXCEPT
                             ![c] = HandshakePeer(c, eng[c], o).refs]
         /\ IF DoHandshakeSucceeds(o.res)
            THEN /\ ret' = [Ret(c, "do_handshake", "None", 0, o.res, eng[c].hs,
                                 <<>>) EXCEPT !.calls = r.calls]
                 /\ errQueue' = Pushed(o, "do_handshake")
            ELSE /\ ret' = [raise_OpenSSL_ssl_error(c, "do_handshake", o.res,
                                 o.err, eng[c].hs, Pushed(o, "do_handshake"))
                             EXCEPT !.calls = r.calls]
                 /\ errQueue' = <<>>
    /\ UNCHANGED <<env, held, obj, ctxRefcnt, bioRefcnt, bioPtr, bioFreeCount, refsTaken,
                   refsDropped, relLog>>

\* ------------------------------------------------------------------------
\* read, lines 169-200
\* ------------------------------------------------------------------------
\* PyArg_ParseTuple() format "I" (lines 175, 364): the Python integer
\* hi * 2^32 + (lo mod 2^32) is converted to a C unsigned int without
\* overflow checking, which keeps its low 32 bits; lo is those bits read as
\* a C int
PyArg_I(v) == v.lo

\* the Python integers passed as max_length
ReadArgs == [hi : 0..1, lo : -1..MaxIO]

\* line 180: PyMem_Malloc() of the size read as a C int; a negative int is
\* a size beyond PY_SSIZE_T_MAX, which is refused, and any allocation may
\* fail for want of memory
PyMem_Malloc(readSize) == IF readSize < 0 THEN {NULL} ELSE {NULL, "buffer"}

\* line 190: the bytes object is built from the first returnValue bytes of
\* the buffer
PyBytes_FromStringAndSize(readSize, returnValue) == returnValue

\* a test that takes a result of 0 for success
ReadSucceeds_nonneg(returnValue) == returnValue >= 0

\* line 187
ReadSucceeds(returnValue) == returnValue > 0

\* the Python integer v = hi * 2^32 + (lo mod 2^32) is passed as max_length;
\* the call records it as ret.arg = <<hi, lo>>
nassl_SSL_read(c, v) ==
    /\ obj[c].st = "alive"
    /\ eng[c].hs \in {"Established", "Closed", "Faulted"}
    /\ LET readSize == PyArg_I(v)
       IN \E readBuffer \in PyMem_Malloc(readSize) :
            IF readBuffer = NULL
            THEN /\ ret' = [Ret(c, "read", "MemoryError", 0, 0, eng[c].hs, <<>>)
                             EXCEPT !.arg = <<v.hi, v.lo>>]
                 /\ UNCHANGED <<eng, errQueue>>
            ELSE \E r \in EngineCall(SSL_read(eng[c], readSize)) :
                   LET o == r.o IN
                     /\ eng' = EngineStep(c, o)
                     /\ IF ReadSucceeds(o.res)
                        THEN /\ ret' = [Ret(c, "read", "ok",
                                             PyBytes_FromStringAndSize(readSize, o.res),
                                             o.res, eng[c].hs, <<>>)
                                         EXCEPT !.calls = r.calls,
                                                !.arg = <<v.hi, v.lo>>]
                             /\ errQueue' = Pushed(o, "read")
                        ELSE /\ ret' = [raise_OpenSSL_ssl_error(c, "read", o.res,
                                             o.err, eng[c].hs, Pushed(o, "read"))
                                         EXCEPT !.calls = r.calls,
                                                !.arg = <<v.hi, v.lo>>]
                             /\ errQueue' = <<>>
    /\ UNCHANGED <<aux, obj, ctxRefcnt, bioRefcnt, bioPtr, bioFreeCount, refsTaken,
                   refsDropped, relLog>>

\* ------------------------------------------------------------------------
\* write, lines 203-226
\* ------------------------------------------------------------------------
\* a test that takes every non-zero result for success
WriteSucceeds_nonzero(returnValue) == returnValue # 0

\* line 215
WriteSucceeds(returnValue) == returnValue > 0

nassl_SSL_write(c, writeSize) ==
    /\ obj[c].st = "alive"
    /\ eng[c].hs \in {"Established", "Faulted"}
    /\ \E r \in EngineCall(SSL_write(eng[c], writeSize)) :
       LET o == r.o IN
         /\ eng' = EngineStep(c, o)
         /\ IF WriteSucceeds(o.res)
            THEN /\ ret' = [Ret(c, "write", "ok", o.res, o.res, eng[c].hs, <<>>)
                             EXCEPT !.calls = r.calls, !.arg = <<writeSize>>]
                 /\ errQueue' = Pushed(o, "write")
            ELSE /\ ret' = [raise_OpenSSL_ssl_error(c, "write", o.res, o.err,
                                 eng[c].hs, Pushed(o, "write"))
                             EXCEPT !.calls = r.calls, !.arg = <<writeSize>>]
                 /\ errQueue' = <<>>
    /\ UNCHANGED <<aux, obj, ctxRefcnt, bioRefcnt, bioPtr, bioFreeCount, refsTaken,
                   refsDropped, relLog>>

\* ------------------------------------------------------------------------
\* write_early_data, lines 229-252 (absent from the LEGACY_OPENSSL build)
\* ------------------------------------------------------------------------
\* line 241
WriteEarlySucceeds(returnValue) == returnValue > 0

nassl_SSL_write_early_data(c, writeSize) ==
    /\ obj[c].st = "alive"
    /\ ~env.legacy
    /\ \E r \in EngineCall(SSL_write_early_data(eng[c], writeSize)) :
       LET o == r.o
           writtenDataSize == writeSize
       IN
         /\ eng' = EngineStep(c, o)
         /\ IF WriteEarlySucceeds(o.res)
            THEN /\ ret' = [Ret(c, "write_early_data", "ok", writtenDataSize,
                                 o.res, eng[c].hs, <<>>)
                             EXCEPT !.calls = r.calls, !.arg = <<writeSize>>]
                 /\ errQueue' = Pushed(o, "write_early_data")
            ELSE /\ ret' = [raise_OpenSSL_ssl_error(c, "write_early_data", o.res,
                                 o.err, eng[c].hs, Pushed(o, "write_early_data"))
                             EXCEPT !.calls = r.calls, !.arg = <<writeSize>>]
                 /\ errQueue' = <<>>
    /\ UNCHANGED <<aux, obj, ctxRefcnt, bioRefcnt, bioPtr, bioFreeCount,
                   refsTaken, refsDropped, relLog>>

\* ------------------------------------------------------------------------
\* shutdown, lines 269-283
\* ------------------------------------------------------------------------
\* a test that takes every non-zero result for success
ShutdownSucceeds_nonzero(returnValue) == returnValue # 0

\* line 274
ShutdownSucceeds(returnValue) == returnValue >= 0

\* a shutdown that also frees the deferred network BIO
nassl_SSL_shutdown_freesNetBio(c) ==
    /\ obj[c].st = "alive"
    /\ eng[c].hs \in {"Established", "ShuttingDown", "Closed", "Faulted"}
    /\ \E o \in SSL_shutdown(eng[c]) :
         /\ eng' = EngineStep(c, o)
         /\ ret' = IF o.res >= 0
                   THEN Ret(c, "shutdown", "ok", o.res, o.res, eng[c].hs, <<>>)
                   ELSE raise_OpenSSL_ssl_error(c, "shutdown", o.res, o.err,
                                 eng[c].hs, Pushed(o, "shutdown"))
         /\ errQueue' = IF o.res >= 0 THEN Pushed(o, "shutdown") ELSE <<>>
    /\ bioFreeCount' = [b \in BIOs |->
          IF obj[c].networkBio_Object = b /\ bioPtr[b]
          THEN bioFreeCount[b] + 1 ELSE bioFreeCount[b]]
    /\ bioPtr' = [b \in BIOs |-> bioPtr[b] /\ obj[c].networkBio_Object # b]
    /\ UNCHANGED <<aux, obj, ctxRefcnt, bioRefcnt, refsTaken, refsDropped, relLog>>

nassl_SSL_shutdown(c) ==
    /\ obj[c].st = "alive"
    /\ eng[c].hs \in {"Established", "ShuttingDown", "Closed", "Faulted"}
    /\ \E r \in EngineCall(SSL_shutdown(eng[c])) :
       LET o == r.o IN
         /\ eng' = EngineStep(c, o)
         /\ IF ShutdownSucceeds(o.res)
            THEN /\ ret' = [Ret(c, "shutdown", "ok", o.res, o.res, eng[c].hs,
                                 <<>>) EXCEPT !.calls = r.calls]
                 /\ errQueue' = Pushed(o, "shutdown")
            ELSE /\ ret' = [raise_OpenSSL_ssl_error(c, "shutdown", o.res, o.err,
                                 eng[c].hs, Pushed(o, "shutdown"))
                             EXCEPT !.calls = r.calls]
                 /\ errQueue' = <<>>
    /\ UNCHANGED <<aux, obj, ctxRefcnt, bioRefcnt, bioPtr, bioFreeCount, refsTaken,
                   refsDropped, relLog>>

\* ------------------------------------------------------------------------
\* pending, lines 286-290
\* ------------------------------------------------------------------------
nassl_SSL_pending(c) ==
    /\ obj[c].st = "alive"
    /\ \E n \in 0..MaxLen :
         ret' = Ret(c, "pending", "ok", n, n, eng[c].hs, <<>>)
    /\ UNCHANGED <<aux, obj, eng, ctxRefcnt, bioRefcnt, bioPtr, bioFreeCount,
                   refsTaken, refsDropped, relLog, errQueue>>

\* ------------------------------------------------------------------------
\* renegotiate, lines 653-657: the engine's result is not looked at
\* ------------------------------------------------------------------------
nassl_SSL_renegotiate(c) ==
    /\ obj[c].st = "alive"
    /\ eng[c].hs \in {"Established", "Faulted"}
    /\ \E o \in SSL_renegotiate(eng[c]) :
         /\ o.push => Len(errQueue) < MaxQueue
         /\ eng' = EngineStep(c, o)
         /\ ret' = Ret(c, "renegotiate", "None", 0, o.res, eng[c].hs, <<>>)
         /\ errQueue' = Pushed(o, "renegotiate")
    /\ UNCHANGED <<aux, obj, ctxRefcnt, bioRefcnt, bioPtr, bioFreeCount, refsTaken,
                   refsDropped, relLog>>

\* ------------------------------------------------------------------------
\* set_session, lines 683-697, and set_cipher_list, lines 429-443
\* ------------------------------------------------------------------------
\* line 691
SetSessionFails(result) == result = 0

\* the caller passes a wrapper it holds of session s; on success the SSL
\* takes its own reference on s and drops the one on its session before
nassl_SSL_set_session(c, s) ==
    /\ obj[c].st = "alive"
    /\ held.sess[s] > 0
    /\ \E o \in SSL_set_session(eng[c]) :
         /\ eng' = [EngineStep(c, o) EXCEPT
                      ![c].session = IF o.res = 1 THEN s ELSE @]
         /\ sessRefcnt' = IF o.res = 1 THEN SessionSwap(eng[c].session, s)
                          ELSE sessRefcnt
         /\ IF SetSessionFails(o.res)
            THEN /\ ret' = raise_OpenSSL_error(c, "set_session", o.res,
                                 eng[c].hs, Pushed(o, "set_session"))
                 /\ errQueue' = <<>>
            ELSE /\ ret' = Ret(c, "set_session", "None", 0, o.res, eng[c].hs, <<>>)
                 /\ errQueue' = Pushed(o, "set_session")
    /\ UNCHANGED <<env, held, x509Refcnt, obj, ctxRefcnt, bioRefcnt, bioPtr, bioFreeCount, refsTaken,
                   refsDropped, relLog>>

\* line 437
SetCipherListFails(result) == result = 0

nassl_SSL_set_cipher_list(c, l) ==
    /\ obj[c].st = "alive"
    /\ \E o \in SSL_set_cipher_list(eng[c]) :
         /\ (o.res = 1) => (l # <<>>)
         /\ eng' = [EngineStep(c, o) EXCEPT
                      ![c].cipher_list = CipherListAfter(eng[c], l, o.res)]
         /\ IF SetCipherListFails(o.res)
            THEN /\ ret' = raise_OpenSSL_error(c, "set_cipher_list", o.res,
                                 eng[c].hs, Pushed(o, "set_cipher_list"))
                 /\ errQueue' = <<>>
            ELSE /\ ret' = Ret(c, "set_cipher_list", "None", 0, o.res, eng[c].hs, <<>>)
                 /\ errQueue' = Pushed(o, "set_cipher_list")
    /\ UNCHANGED <<aux, obj, ctxRefcnt, bioRefcnt, bioPtr, bioFreeCount, refsTaken,
                   refsDropped, relLog>>

\* ------------------------------------------------------------------------
\* get_tlsext_status_ocsp_resp, lines 761-819
\* ------------------------------------------------------------------------
\* what the engine finds: no stapled bytes (line 771), bytes that
\* d2i_OCSP_RESPONSE rejects (line 778), no peer chain (line 786), no memory
\* for the copy of the chain (line 796), no memory for the wrapper (line
\* 811), or all of it
OcspCases == {"absent", "malformed", "nochain", "nostack", "allocfails", "ok"}

\* the native objects made on the way to the wrapper: the parsed response
\* (line 777), the stack (line 795) and the duplicates that are not NULL
OcspMade(certChainCpy) ==
    2 + Cardinality({ i \in 1..Len(certChainCpy) : certChainCpy[i] # NULL })

\* the stapled data behind each case
StapleOf(k) ==
    CASE k = "absent" -> "absent"
      [] k = "malformed" -> "malformed"
      [] OTHER -> "wellformed"

\* lines 801-806: each certificate is pushed as X509_dup() returns it, a
\* NULL where the duplication failed
OcspChainCopies(certs) ==
    { [i \in 1..Len(certs) |-> IF i \in F THEN NULL ELSE certs[i]] :
        F \in SUBSET (1..Len(certs)) }

\* the call records the stapled data it met as ret.arg; the peer staples a
\* response to the certificates it sends in a completed handshake
nassl_SSL_get_tlsext_status_ocsp_resp(c) ==
    /\ obj[c].st = "alive"
    /\ \E k \in OcspCases :
         /\ (k # "absent") => eng[c].session # NULL
         /\ (k = "nochain") => eng[c].peer_chain.null
         /\ (k \in {"malformed", "nostack", "allocfails", "ok"})
               => ~eng[c].peer_chain.null
         /\ CASE k = "absent" ->
                /\ ret' = [Ret(c, "get_ocsp", "None", 0, 0, eng[c].hs, <<>>)
                             EXCEPT !.arg = <<StapleOf(k)>>]
                /\ errQueue' = errQueue
           [] k = "malformed" ->
                /\ Len(errQueue) < MaxQueue
                /\ ret' = [Ret(c, "get_ocsp", "ValueError", 0, 0, eng[c].hs, <<>>)
                             EXCEPT !.arg = <<StapleOf(k)>>]
                /\ errQueue' = Append(errQueue, "get_ocsp")
           [] k = "nochain" ->
                /\ ret' = [Ret(c, "get_ocsp", "ValueError", 0, 1, eng[c].hs, <<>>)
                             EXCEPT !.arg = <<StapleOf(k)>>, !.made = 1]
                /\ errQueue' = errQueue
           [] k = "nostack" ->
                /\ ret' = [raise_OpenSSL_error(c, "get_ocsp", 1, eng[c].hs,
                                               Append(errQueue, "get_ocsp"))
                             EXCEPT !.arg = <<StapleOf(k)>>, !.made = 1]
                /\ errQueue' = <<>>
           [] k = "allocfails" ->
                /\ \E certChainCpy \in OcspChainCopies(eng[c].peer_chain.certs) :
                     ret' = [Ret(c, "get_ocsp", "MemoryError", 0, 1, eng[c].hs,
                                 <<>>)
                               EXCEPT !.arg = <<StapleOf(k)>>,
                                      !.made = OcspMade(certChainCpy)]
                /\ errQueue' = errQueue
           [] OTHER ->
                /\ \E certChainCpy \in OcspChainCopies(eng[c].peer_chain.certs) :
                     ret' = [Ret(c, "get_ocsp", "ok", 0, 1, eng[c].hs,
                                 certChainCpy)
                               EXCEPT !.arg = <<StapleOf(k)>>,
                                      !.made = OcspMade(certChainCpy),
                                      !.given = OcspMade(certChainCpy)]
                /\ errQueue' = errQueue
    /\ UNCHANGED <<aux, obj, eng, ctxRefcnt, bioRefcnt, bioPtr, bioFreeCount,
                   refsTaken, refsDropped, relLog>>

\* ------------------------------------------------------------------------
\* get_peer_cert_chain, lines 931-979
\* ------------------------------------------------------------------------
\* no peer chain (line 939), no memory for the list (line 948), X509_dup
\* fails on an entry (line 958), no memory for the wrapper of an entry
\* (line 967), or the list is built
ChainCases == {"nochain", "nolist", "dupfails", "allocfails", "ok"}

\* line 947: a list of certChainCount empty slots
PyList_New(certChainCount) == [i \in 1..certChainCount |-> NULL]

\* a loop that fills the list from its end
ChainSlot_reversed(certChainCount, i) == certChainCount + 1 - i

\* line 975: the i-th certificate of the chain goes to the i-th slot
ChainSlot(certChainCount, i) == i

\* lines 953-976: the list after the loop has run from the i-th certificate
\* to the last
RECURSIVE FillChainList(_, _, _)
FillChainList(certChain, certChainPyList, i) ==
    IF i > Len(certChain) THEN certChainPyList
    ELSE FillChainList(certChain,
                       [certChainPyList EXCEPT
                          ![ChainSlot(Len(certChain), i)] = certChain[i]],
                       i + 1)

\* a list entry that wraps the engine's own certificate
ChainEntryIsCopy_alias(i) == FALSE

\* line 957: the entry wraps a duplicate made by X509_dup()
ChainEntryIsCopy(i) == TRUE

\* the wrappers of the returned list: of duplicates, or of the engine's
\* certificates at the positions that were not duplicated
ChainWrappers(c, certs) ==
    [held EXCEPT
       !.copies = @ + Cardinality({ i \in 1..Len(certs) : ChainEntryIsCopy(i) }),
       !.x509[c] = [i \in ChainIdx |->
                      IF i <= Len(certs) /\ ~ChainEntryIsCopy(i)
                      THEN @[i] + 1 ELSE @[i]]]

nassl_SSL_get_peer_cert_chain(c) ==
    /\ obj[c].st = "alive"
    /\ \E k \in ChainCases, j \in ChainIdx :
       LET certChain == eng[c].peer_chain.certs IN
         /\ (k = "nochain") <=> eng[c].peer_chain.null
         /\ IF k \in {"dupfails", "allocfails"}
            THEN j <= Len(certChain) ELSE j = 1
         /\ CASE k = "nochain" ->
                /\ ret' = Ret(c, "get_chain", "ValueError", 0, 0, eng[c].hs, <<>>)
                /\ errQueue' = errQueue
                /\ held' = held
           [] k = "nolist" ->
                /\ ret' = Ret(c, "get_chain", "MemoryError", 0, 1, eng[c].hs, <<>>)
                /\ errQueue' = errQueue
                /\ held' = held
           [] k = "dupfails" ->
                \* the j-th X509_dup() fails: the list and the j - 1 wrappers
                \* in it are released
                /\ Len(errQueue) < MaxQueue
                /\ ret' = [Ret(c, "get_chain", "ValueError", 0, 1, eng[c].hs, <<>>)
                             EXCEPT !.made = j - 1, !.freed = j - 1]
                /\ errQueue' = Append(errQueue, "get_chain")
                /\ held' = held
           [] k = "allocfails" ->
                \* the j-th tp_alloc fails: the list is released, the j-th
                \* duplicate is not
                /\ ret' = [Ret(c, "get_chain", "MemoryError", 0, 1, eng[c].hs, <<>>)
                             EXCEPT !.made = j, !.freed = j - 1]
                /\ errQueue' = errQueue
                /\ held' = held
           [] OTHER ->
                /\ held.copies + Len(certChain) <= MaxHeld
                /\ \A i \in ChainIdx : held.x509[c][i] < MaxHeld
                /\ ret' = [Ret(c, "get_chain", "ok", 0, 1, eng[c].hs,
                               FillChainList(certChain,
                                             PyList_New(Len(certChain)), 1))
                             EXCEPT !.made = Len(certChain),
                                    !.given = Len(certChain)]
                /\ errQueue' = errQueue
                /\ held' = ChainWrappers(c, certChain)
    /\ UNCHANGED <<env, x509Refcnt, sessRefcnt, obj, eng, ctxRefcnt, bioRefcnt,
                   bioPtr, bioFreeCount, refsTaken, refsDropped, relLog>>

\* ------------------------------------------------------------------------
\* get_client_CA_list, lines 593-643
\* ------------------------------------------------------------------------
\* line 616: sk_X509_NAME_pop() removes the last name of the stack and
\* answers it
sk_X509_NAME_pop(x509Names) ==
    [name |-> x509Names[Len(x509Names)],
     rest |-> SubSeq(x509Names, 1, Len(x509Names) - 1)]

\* lines 612-641: the Python list and the engine's stack after the loop has
\* run from its i-th round to round last
RECURSIVE ExtractNames(_, _, _, _)
ExtractNames(x509Names, namesPyList, i, last) ==
    IF i > last THEN [list |-> namesPyList, stack |-> x509Names]
    ELSE LET t == sk_X509_NAME_pop(x509Names)
         IN ExtractNames(t.rest, Append(namesPyList, t.name), i + 1, last)

\* the loop runs x509NamesNum rounds (line 608) and the list is returned, or
\* round j finds no memory for the string of the name it popped (line 631)
\* and the list is dropped
nassl_SSL_get_client_CA_list(c) ==
    /\ obj[c].st = "alive"
    /\ LET x509Names == eng[c].ca_names
           x509NamesNum == Len(x509Names)
       IN \/ LET r == ExtractNames(x509Names, <<>>, 1, x509NamesNum)
             IN /\ eng' = [eng EXCEPT ![c].ca_names = r.stack]
                /\ ret' = Ret(c, "get_client_CA_list", "ok", 0, 1, eng[c].hs,
                              r.list)
          \/ \E j \in 1..x509NamesNum :
               LET r == ExtractNames(x509Names, <<>>, 1, j)
               IN /\ eng' = [eng EXCEPT ![c].ca_names = r.stack]
                  /\ ret' = Ret(c, "get_client_CA_list", "MemoryError", 0, 1,
                                eng[c].hs, <<>>)
    /\ UNCHANGED <<aux, obj, ctxRefcnt, bioRefcnt, bioPtr, bioFreeCount,
                   refsTaken, refsDropped, relLog, errQueue>>

\* ------------------------------------------------------------------------
\* get_peer_certificate, lines 404-426
\* ------------------------------------------------------------------------
\* a lookup that hands out the engine's pointer without a reference
PeerCertificateRefs_borrowed(e) == IF HasPeerCert(e, 1) THEN 0 ELSE 0

\* line 407: SSL_get_peer_certificate() answers with a reference of the
\* caller's own on the certificate
PeerCertificateRefs(e) == IF HasPeerCert(e, 1) THEN 1 ELSE 0

nassl_SSL_get_peer_certificate(c) ==
    /\ obj[c].st = "alive"
    /\ IF ~HasPeerCert(eng[c], 1)
       THEN /\ ret' = Ret(c, "get_peer_certificate", "None", 0, 0, eng[c].hs, <<>>)
            /\ UNCHANGED <<x509Refcnt, held>>
       ELSE /\ held.x509[c][1] < MaxHeld
            /\ x509Refcnt[c][1] <= MaxHeld
            /\ x509Refcnt' = [x509Refcnt EXCEPT
                                ![c][1] = @ + PeerCertificateRefs(eng[c])]
            /\ \/ /\ held' = [held EXCEPT !.x509[c][1] = @ + 1]
                  /\ ret' = [Ret(c, "get_peer_certificate", "ok", 0, 1,
                                 eng[c].hs, <<eng[c].peer_chain.certs[1]>>)
                             EXCEPT !.made = PeerCertificateRefs(eng[c]),
                                    !.given = 1]
               \/ /\ held' = held
                  /\ ret' = [Ret(c, "get_peer_certificate", "MemoryError", 0, 1,
                                 eng[c].hs, <<>>)
                             EXCEPT !.made = PeerCertificateRefs(eng[c])]
    /\ UNCHANGED <<env, sessRefcnt, obj, eng, ctxRefcnt, bioRefcnt, bioPtr,
                   bioFreeCount, refsTaken, refsDropped, relLog, errQueue>>

\* ------------------------------------------------------------------------
\* get_session, lines 660-680
\* ------------------------------------------------------------------------
\* a lookup that hands out the engine's pointer without a reference
GetSessionRefs_borrowed(e) == IF e.session # NULL THEN 0 ELSE 0

\* line 662: SSL_get1_session() answers with a reference of the caller's own
GetSessionRefs(e) == IF e.session # NULL THEN 1 ELSE 0

nassl_SSL_get_session(c) ==
    /\ obj[c].st = "alive"
    /\ IF eng[c].session = NULL
       THEN /\ ret' = Ret(c, "get_session", "None", 0, 0, eng[c].hs, <<>>)
            /\ UNCHANGED <<sessRefcnt, held>>
       ELSE LET sslSession == eng[c].session
            IN /\ held.sess[sslSession] < MaxHeld
               /\ sessRefcnt[sslSession] <= MaxHeld + 1
               /\ sessRefcnt' = [sessRefcnt EXCEPT
                                   ![sslSession] = @ + GetSessionRefs(eng[c])]
               /\ \/ /\ held' = [held EXCEPT !.sess[sslSession] = @ + 1]
                     /\ ret' = [Ret(c, "get_session", "ok", 0, 1, eng[c].hs,
                                    <<sslSession>>)
                                EXCEPT !.made = GetSessionRefs(eng[c]),
                                       !.given = 1]
                  \/ /\ held' = held
                     /\ ret' = [Ret(c, "get_session", "MemoryError", 0, 1,
                                    eng[c].hs, <<>>)
                                EXCEPT !.made = GetSessionRefs(eng[c])]
    /\ UNCHANGED <<env, x509Refcnt, obj, eng, ctxRefcnt, bioRefcnt, bioPtr,
                   bioFreeCount, refsTaken, refsDropped, relLog, errQueue>>

\* ------------------------------------------------------------------------
\* The caller drops a wrapper it was handed: tp_dealloc of _nassl.X509 and of
\* _nassl.SSL_SESSION release the native object the wrapper points to
\* ------------------------------------------------------------------------
nassl_X509_dealloc(c, i) ==
    /\ held.x509[c][i] > 0
    /\ held' = [held EXCEPT !.x509[c][i] = @ - 1]
    /\ x509Refcnt' = [x509Refcnt EXCEPT ![c][i] = @ - 1]
    /\ ret' = Ret(c, "X509_dealloc", "None", 0, 0,
                  IF obj[c].st = "alive" THEN eng[c].hs ELSE "None", <<>>)
    /\ UNCHANGED <<env, sessRefcnt, obj, eng, ctxRefcnt, bioRefcnt, bioPtr,
                   bioFreeCount, refsTaken, refsDropped, relLog, errQueue>>

nassl_X509_dealloc_copy ==
    /\ held.copies > 0
    /\ held' = [held EXCEPT !.copies = @ - 1]
    /\ ret' = Ret(NULL, "X509_dealloc", "None", 0, 0, "None", <<>>)
    /\ UNCHANGED <<env, x509Refcnt, sessRefcnt, obj, eng, ctxRefcnt, bioRefcnt,
                   bioPtr, bioFreeCount, refsTaken, refsDropped, relLog, errQueue>>

nassl_SSL_SESSION_dealloc(s) ==
    /\ held.sess[s] > 0
    /\ held' = [held EXCEPT !.sess[s] = @ - 1]
    /\ sessRefcnt' = [sessRefcnt EXCEPT ![s] = @ - 1]
    /\ ret' = Ret(NULL, "SSL_SESSION_dealloc", "None", 0, 0, "None", <<>>)
    /\ UNCHANGED <<env, x509Refcnt, obj, eng, ctxRefcnt, bioRefcnt, bioPtr,
                   bioFreeCount, refsTaken, refsDropped, relLog, errQueue>>

\* ------------------------------------------------------------------------
\* The driver of a loop-back pair moves what SSL object c wrote to its
\* network endpoint into the network endpoint of SSL object d
\* ------------------------------------------------------------------------
transfer_network_bytes(c, d) ==
    /\ c # d
    /\ obj[c].st = "alive" /\ obj[d].st = "alive"
    /\ eng[c].rbio # NULL /\ eng[d].rbio # NULL
    /\ eng[c].netOut > 0
    /\ eng' = [eng EXCEPT ![c].netOut = 0, ![d].netIn = 1]
    /\ ret' = Ret(c, "transfer", "None", 0, 0, eng[c].hs, <<>>)
    /\ UNCHANGED <<aux, obj, ctxRefcnt, bioRefcnt, bioPtr, bioFreeCount,
                   refsTaken, refsDropped, relLog, errQueue>>

\* ------------------------------------------------------------------------
\* The caller
\* ------------------------------------------------------------------------
\* the calls that create, wire and release an SSL object
Lifecycle(c) ==
    \/ nassl_SSL_new_badarg(c)
    \/ \E x \in Ctxs : nassl_SSL_new_fail(c, x)
    \/ \E x \in Ctxs : nassl_SSL_new(c, x)
    \/ nassl_SSL_dealloc(c)
    \/ \E b \in IntBIOs : nassl_SSL_set_bio(c, b)
    \/ nassl_SSL_set_bio_badarg(c)
    \/ \E b \in NetBIOs : nassl_SSL_set_network_bio_to_free_when_dealloc(c, b)

\* the calls that drive or query the connection
Traffic(c) ==
    \/ nassl_SSL_set_connect_state(c)
    \/ nassl_SSL_do_handshake(c)
    \/ \E n \in 1..MaxLen : nassl_SSL_read(c, [hi |-> 0, lo |-> n])
    \/ \E n \in 1..MaxLen : nassl_SSL_write(c, n)
    \/ nassl_SSL_shutdown(c)
    \/ nassl_SSL_pending(c)
    \/ nassl_SSL_renegotiate(c)
    \/ \E s \in {"ext"} : nassl_SSL_set_session(c, s)
    \/ \E l \in env.cipherStrings : nassl_SSL_set_cipher_list(c, l)
    \/ nassl_SSL_get_tlsext_status_ocsp_resp(c)
    \/ nassl_SSL_get_peer_cert_chain(c)

\* one SSL object, every call on it in any order
Next ==
    \/ Lifecycle("c1")
    \/ Traffic("c1")

Spec == Init /\ [][Next]_vars

\* several SSL objects over the same SSL_CTX and BIO wrappers, created,
\* wired and released in any interleaving
NextShare == \E c \in Conns : Lifecycle(c)

SpecShare == Init /\ [][NextShare]_vars

TypeOK == \A c \in Conns : obj[c].st \in {"unborn", "alive", "dead"}
\* ------------------------------------------------------------------------
\* set_verify, lines 361-383
\* ------------------------------------------------------------------------
\* the Python integers passed as the mode: hi * 2^32 + lo
VerifyArgs == [hi : 0..1, lo : 0..5]

\* lines 371-374: SSL_VERIFY_NONE, SSL_VERIFY_PEER,
\* SSL_VERIFY_FAIL_IF_NO_PEER_CERT, SSL_VERIFY_CLIENT_ONCE
VerifyModeAccepted(verifyMode) == verifyMode \in {0, 1, 2, 4}

\* the call records the argument as ret.val (hi) and ret.res (lo)
nassl_SSL_set_verify(c, v) ==
    /\ obj[c].st = "alive"
    /\ LET verifyMode == PyArg_I(v)
       IN IF VerifyModeAccepted(verifyMode)
          THEN /\ eng' = [eng EXCEPT ![c].verify_mode = verifyMode]
               /\ ret' = Ret(c, "set_verify", "None", v.hi, v.lo, eng[c].hs, <<>>)
          ELSE /\ eng' = eng
               /\ ret' = Ret(c, "set_verify", "ValueError", v.hi, v.lo,
                             eng[c].hs, <<>>)
    /\ UNCHANGED <<aux, obj, ctxRefcnt, bioRefcnt, bioPtr, bioFreeCount,
                   refsTaken, refsDropped, relLog, errQueue>>

\* ------------------------------------------------------------------------
\* The engine's cipher table
\* ------------------------------------------------------------------------
\* the legacy engine has an SSLv2 and an SSLv3 cipher of the same name
CipherIds == {"c_aes", "c_rc4v3", "c_rc4v2"}

\* names are C strings: sequences of characters
NoneName == <<"(", "N", "O", "N", "E", ")">>

SSL_CIPHER_get_name(k) ==
    CASE k = NULL -> NoneName
      [] k = "c_aes" -> <<"A", "E", "S">>
      [] OTHER -> <<"R", "C", "4">>

SSL_CIPHER_get_bits(k) ==
    CASE k = NULL -> 0
      [] k = "c_aes" -> 256
      [] k = "c_rc4v3" -> 128
      [] OTHER -> 40

\* cipher->id & 0x0000FFFF, line 585
CipherProtocolId(k) ==
    CASE k = "c_aes" -> 53
      [] k = "c_rc4v3" -> 4
      [] OTHER -> 128

\* the text SSL_CIPHER_description() writes for cipher k
SSL_CIPHER_description(k) == <<k>>

\* strcmp(a, b) = 0, comparing from character i on: equal characters up to
\* and including the terminator
RECURSIVE strcmp_is0(_, _, _)
strcmp_is0(a, b, i) ==
    IF i > Len(a) \/ i > Len(b)
    THEN Len(a) = Len(b)
    ELSE a[i] = b[i] /\ strcmp_is0(a, b, i + 1)

\* a comparison of the first strlen(wanted) characters only
NameMatches_prefix(thisCipherName, wantedCipherName) ==
    /\ Len(thisCipherName) >= Len(wantedCipherName)
    /\ \A i \in 1..Len(wantedCipherName) : thisCipherName[i] = wantedCipherName[i]

\* line 524
NameMatches(thisCipherName, wantedCipherName) ==
    strcmp_is0(thisCipherName, wantedCipherName, 1)

\* the loop of lines 521-527 from index i on: it stops at the first match
RECURSIVE FindCipher(_, _, _)
FindCipher(sk, wantedCipherName, i) ==
    IF i > Len(sk) THEN NULL
    ELSE IF NameMatches(SSL_CIPHER_get_name(sk[i]), wantedCipherName)
         THEN sk[i]
         ELSE FindCipher(sk, wantedCipherName, i + 1)

\* the names a caller asks for: a configured name, a prefix of one, a
\* different-case variant, a longer name, the empty name
WantedNames == { <<"A", "E", "S">>, <<"A", "E">>, <<"a", "e", "s">>,
                 <<"A", "E", "S", "2">>, <<"R", "C", "4">>, <<>> }

\* get_cipher_description, lines 509-535
nassl_SSL_get_cipher_description(c, wantedCipherName) ==
    /\ obj[c].st = "alive"
    /\ LET found_cipher == FindCipher(eng[c].cipher_list, wantedCipherName, 1)
       IN ret' = [ (IF found_cipher = NULL
                    THEN Ret(c, "get_cipher_description", "None", 0, 0,
                             eng[c].hs, <<>>)
                    ELSE Ret(c, "get_cipher_description", "ok", 0, 0, eng[c].hs,
                             SSL_CIPHER_description(found_cipher)))
                   EXCEPT !.arg = wantedCipherName ]
    /\ UNCHANGED <<aux, obj, eng, ctxRefcnt, bioRefcnt, bioPtr, bioFreeCount,
                   refsTaken, refsDropped, relLog, errQueue>>

\* ------------------------------------------------------------------------
\* get_cipher_bits, get_cipher_name, get_cipher_protocol_id, lines 540-590
\* ------------------------------------------------------------------------
\* lines 540-552: the cipher chosen by the handshake in progress, read from
\* the private structure in the LEGACY_OPENSSL build only
get_tmp_new_cipher(e) == IF env.legacy THEN e.new_cipher ELSE NULL

\* SSL_get_cipher_bits(ssl) and SSL_get_cipher_name(ssl) answer for the
\* cipher of the session
nassl_SSL_get_cipher_bits(c) ==
    /\ obj[c].st = "alive"
    /\ LET cipher == get_tmp_new_cipher(eng[c])
           returnValue == IF cipher # NULL THEN SSL_CIPHER_get_bits(cipher)
                          ELSE SSL_CIPHER_get_bits(eng[c].cipher)
       IN ret' = Ret(c, "get_cipher_bits", "ok", returnValue, 0, eng[c].hs, <<>>)
    /\ UNCHANGED <<aux, obj, eng, ctxRefcnt, bioRefcnt, bioPtr, bioFreeCount,
                   refsTaken, refsDropped, relLog, errQueue>>

nassl_SSL_get_cipher_name(c) ==
    /\ obj[c].st = "alive"
    /\ LET cipher == get_tmp_new_cipher(eng[c])
           cipherName == IF cipher # NULL THEN SSL_CIPHER_get_name(cipher)
                         ELSE SSL_CIPHER_get_name(eng[c].cipher)
       IN ret' = IF strcmp_is0(cipherName, NoneName, 1)
                 THEN Ret(c, "get_cipher_name", "None", 0, 0, eng[c].hs, <<>>)
                 ELSE Ret(c, "get_cipher_name", "ok", 0, 0, eng[c].hs, cipherName)
    /\ UNCHANGED <<aux, obj, eng, ctxRefcnt, bioRefcnt, bioPtr, bioFreeCount,
                   refsTaken, refsDropped, relLog, errQueue>>

nassl_SSL_get_cipher_protocol_id(c) ==
    /\ obj[c].st = "alive"
    /\ LET cipher == get_tmp_new_cipher(eng[c])
       IN ret' = IF cipher = NULL
                 THEN Ret(c, "get_cipher_protocol_id", "None", 0, 0,
                          eng[c].hs, <<>>)
                 ELSE Ret(c, "get_cipher_protocol_id", "ok",
                          CipherProtocolId(cipher), 0, eng[c].hs, <<>>)
    /\ UNCHANGED <<aux, obj, eng, ctxRefcnt, bioRefcnt, bioPtr, bioFreeCount,
                   refsTaken, refsDropped, relLog, errQueue>>

\* ------------------------------------------------------------------------
\* One SSL object configured and queried
\* ------------------------------------------------------------------------
\* the cipher lists a cipher string can select
CipherLists == { <<>>, <<"c_aes">>, <<"c_rc4v3", "c_rc4v2">>,
                 <<"c_rc4v2", "c_aes", "c_rc4v3">> }

\* either build, any agreed cipher, any cipher list in the SSL_CTX
InitCipher ==
    /\ InitObjects
    /\ env \in [legacy : BOOLEAN, loopback : {FALSE}, clientCAs : {<<>>}, negotiated : {"c_aes", "c_rc4v3"},
                ctxCiphers : {<<>>, <<"c_aes">>},
                cipherStrings : {CipherLists},
                peerChain : {Chain(<<"leaf">>)}]

NextCipher ==
    \/ \E x \in Ctxs : nassl_SSL_new("c1", x)
    \/ nassl_SSL_dealloc("c1")
    \/ \E b \in {"i1"} : nassl_SSL_set_bio("c1", b)
    \/ nassl_SSL_set_connect_state("c1")
    \/ nassl_SSL_do_handshake("c1")
    \/ \E v \in VerifyArgs : nassl_SSL_set_verify("c1", v)
    \/ \E l \in env.cipherStrings : nassl_SSL_set_cipher_list("c1", l)
    \/ \E w \in WantedNames : nassl_SSL_get_cipher_description("c1", w)
    \/ nassl_SSL_get_cipher_bits("c1")
    \/ nassl_SSL_get_cipher_name("c1")
    \/ nassl_SSL_get_cipher_protocol_id("c1")

SpecCipher == InitCipher /\ [][NextCipher]_vars

\* ------------------------------------------------------------------------
\* One SSL object whose peer certificates are handed to the caller
\* ------------------------------------------------------------------------
\* the peer sends no certificate, an empty chain, a leaf, or a leaf and an
\* issuer
PeerChains == { NoChain, Chain(<<>>), Chain(<<"leaf">>), Chain(<<"leaf", "ca">>) }

InitCert ==
    /\ InitObjects
    /\ env \in [legacy : {FALSE}, loopback : {FALSE}, clientCAs : {<<>>}, negotiated : {"c_aes"},
                ctxCiphers : {<<"c_aes">>}, cipherStrings : {{<<"c_aes">>}},
                peerChain : PeerChains]

NextCert ==
    \/ \E x \in Ctxs : nassl_SSL_new("c1", x)
    \/ nassl_SSL_dealloc("c1")
    \/ \E b \in {"i1"} : nassl_SSL_set_bio("c1", b)
    \/ nassl_SSL_set_connect_state("c1")
    \/ nassl_SSL_do_handshake("c1")
    \/ nassl_SSL_get_peer_certificate("c1")
    \/ nassl_SSL_get_peer_cert_chain("c1")
    \/ nassl_SSL_get_tlsext_status_ocsp_resp("c1")
    \/ nassl_SSL_get_session("c1")
    \/ \E i \in ChainIdx : nassl_X509_dealloc("c1", i)
    \/ nassl_X509_dealloc_copy
    \/ \E s \in SessionIds : nassl_SSL_SESSION_dealloc(s)

SpecCert == InitCert /\ [][NextCert]_vars

\* ------------------------------------------------------------------------
\* Two SSL objects and the sessions passed between them
\* ------------------------------------------------------------------------
\* the BIO each SSL object is bound to
BioOf(c) == IF c = "c1" THEN "i1" ELSE "i2"

NextSess ==
    \E c \in Conns :
      \/ \E x \in Ctxs : nassl_SSL_new(c, x)
      \/ nassl_SSL_dealloc(c)
      \/ nassl_SSL_set_bio(c, BioOf(c))
      \/ nassl_SSL_set_connect_state(c)
      \/ nassl_SSL_do_handshake(c)
      \/ nassl_SSL_get_session(c)
      \/ \E s \in SessionIds : nassl_SSL_set_session(c, s)
      \/ \E s \in SessionIds : nassl_SSL_SESSION_dealloc(s)

SpecSess == Init /\ [][NextSess]_vars

\* ------------------------------------------------------------------------
\* One SSL object and the calls that move data
\* ------------------------------------------------------------------------
NextIO ==
    \/ \E x \in Ctxs : nassl_SSL_new("c1", x)
    \/ nassl_SSL_dealloc("c1")
    \/ nassl_SSL_set_bio("c1", "i1")
    \/ nassl_SSL_set_connect_state("c1")
    \/ nassl_SSL_do_handshake("c1")
    \/ \E v \in ReadArgs : nassl_SSL_read("c1", v)
    \/ \E n \in 0..MaxIO : nassl_SSL_write("c1", n)
    \/ \E n \in 0..MaxIO : nassl_SSL_write_early_data("c1", n)
    \/ nassl_SSL_shutdown("c1")

SpecIO == Init /\ [][NextIO]_vars

\* ------------------------------------------------------------------------
\* One SSL object whose peer asks for a client certificate
\* ------------------------------------------------------------------------
\* the CA names a peer may send
ClientCALists == { <<>>, <<"ca1">>, <<"ca1", "ca2">> }

InitCA ==
    /\ InitObjects
    /\ env \in { [PlainEnv EXCEPT !.clientCAs = l] : l \in ClientCALists }

NextCA ==
    \/ \E x \in Ctxs : nassl_SSL_new("c1", x)
    \/ nassl_SSL_dealloc("c1")
    \/ nassl_SSL_set_bio("c1", "i1")
    \/ nassl_SSL_set_connect_state("c1")
    \/ nassl_SSL_do_handshake("c1")
    \/ nassl_SSL_shutdown("c1")
    \/ nassl_SSL_get_client_CA_list("c1")

SpecCA == InitCA /\ [][NextCA]_vars

\* ------------------------------------------------------------------------
\* Two SSL objects that are each other's peer
\* ------------------------------------------------------------------------
InitLoop == InitObjects /\ env = [PlainEnv EXCEPT !.loopback = TRUE]

NextLoop ==
    \E c \in Conns :
      \/ \E x \in Ctxs : nassl_SSL_new(c, x)
      \/ nassl_SSL_dealloc(c)
      \/ nassl_SSL_set_bio(c, BioOf(c))
      \/ nassl_SSL_set_connect_state(c)
      \/ nassl_SSL_do_handshake(c)
      \/ \E d \in Conns : transfer_network_bytes(c, d)

SpecLoop == InitLoop /\ [][NextLoop]_vars

\* ------------------------------------------------------------------------
\* Properties
\* ------------------------------------------------------------------------
Range(q) == { q[i] : i \in 1..Len(q) }

\* C1: a successful create(context) followed immediately by destroy frees no
\* BIO and leaves the SSL_CTX wrapper's reference count at its value before
\* the create (ret.val of the create is that value).
C1_CreateDestroyRestoresCtxCount ==
    [][\A c \in Conns :
         (/\ ret.op = "new" /\ ret.kind = "ok" /\ ret.c = c
          /\ obj[c].st = "alive" /\ obj'[c].st = "dead")
         => /\ ctxRefcnt'[obj[c].sslCtx_Object] = ret.val
            /\ bioFreeCount' = bioFreeCount
            /\ relLog'[c] = <<"SSL_free", "DECREF_sslCtx">>]_vars

C1_Witness ==
    /\ ret.op = "dealloc" /\ ret.pre = "new"
    /\ \E c \in Conns : ret.c = c /\ obj[c].st = "dead"
                        /\ ctxRefcnt[obj[c].sslCtx_Object] >= 1

\* C4: destroy releases in a fixed order: the deferred network BIO, then the
\* native SSL (its bound BIO within that same step), then the reference on
\* the SSL_CTX wrapper; nothing later in this order is released before
\* something earlier.
ReleaseRank(ev) ==
    CASE ev \in {"BIO_vfree", "DECREF_networkBio"} -> 1
      [] ev \in {"SSL_free", "free_rbio"} -> 2
      [] OTHER -> 3

C4_ReleaseOrder ==
    \A c \in Conns :
      /\ \A i, j \in 1..Len(relLog[c]) :
            i < j => ReleaseRank(relLog[c][i]) <= ReleaseRank(relLog[c][j])
      /\ \A i \in 1..Len(relLog[c]) :
            relLog[c][i] = "free_rbio" => (i > 1 /\ relLog[c][i - 1] = "SSL_free")

C4_Witness ==
    \E c \in Conns :
      relLog[c] = <<"BIO_vfree", "DECREF_networkBio", "SSL_free", "free_rbio",
                    "DECREF_sslCtx">>

\* C5: whatever subset of {network BIO, SSL, SSL_CTX reference} is set in the
\* object being released (the object of a failed create has none), dealloc
\* touches exactly the resources that are set, each once.
C5_DeallocToleratesUnset ==
    [][\A c \in Conns :
         (obj[c].st # "dead" /\ obj'[c].st = "dead")
         => LET o == IF obj[c].st = "alive" THEN obj[c] ELSE NewObject
                log == relLog'[c]
            IN /\ Cardinality(Range(log)) = Len(log)
               /\ ("SSL_free" \in Range(log)) <=> o.ssl
               /\ ("free_rbio" \in Range(log)) <=> (o.ssl /\ eng[c].rbio # NULL)
               /\ ("DECREF_sslCtx" \in Range(log)) <=> (o.sslCtx_Object # NULL)
               /\ ("DECREF_networkBio" \in Range(log))
                     <=> (o.networkBio_Object # NULL)
               /\ ("BIO_vfree" \in Range(log))
                     <=> (o.networkBio_Object # NULL /\ bioPtr[o.networkBio_Object])
               /\ \A b \in NetBIOs :
                     bioFreeCount'[b] - bioFreeCount[b]
                        = IF "BIO_vfree" \in Range(log) /\ o.networkBio_Object = b
                          THEN 1 ELSE 0]_vars

C5_Witness ==
    /\ ret.op = "new" /\ ret.kind = "OpenSSLError"
    /\ \E c \in Conns : ret.c = c /\ obj[c].st = "dead" /\ relLog[c] = <<>>
    /\ \E d \in Conns : obj[d].st = "dead" /\ "BIO_vfree" \in Range(relLog[d])
\* C2 (as claimed): once an SSL object that adopted network BIO b has been
\* destroyed, the native buffer of b has been freed exactly once, whatever
\* was called on the object in between.
C2_AdoptedReleasedExactlyOnce ==
    \A c \in Conns, b \in NetBIOs :
      (obj[c].st = "dead" /\ refsTaken[c][b] > 0) => bioFreeCount[b] = 1

C6_AtMostOneNetBioHeld ==
    \A c \in Conns, b \in NetBIOs :
      obj[c].st = "alive"
      => refsTaken[c][b] - refsDropped[c][b]
            = (IF obj[c].networkBio_Object = b THEN 1 ELSE 0)

\* C7: do_handshake reports success only when the engine answered 1, and the
\* connection is then Established; on WantRead or WantWrite it is in
\* Handshaking; every other outcome is a fatal classification (with the
\* drained diagnostic for a protocol error) and the connection is Faulted.
C7_HandshakeOutcomes ==
    ret.op = "do_handshake"
    => /\ ret.kind = "None" => (ret.res = 1 /\ eng[ret.c].hs = "Established")
       /\ ret.kind \in {"WantRead", "WantWrite"} => eng[ret.c].hs = "Handshaking"
       /\ ret.kind \notin {"None", "WantRead", "WantWrite"}
            => /\ ret.kind \in {"SyscallError", "ProtocolError"}
               /\ eng[ret.c].hs = "Faulted"
               /\ ret.kind = "ProtocolError" => "do_handshake" \in Range(ret.diag)

C7_Witness ==
    /\ ret.op = "do_handshake" /\ ret.kind = "None" /\ ret.pre = "Handshaking"
    /\ eng[ret.c].hs = "Established"

FatalKinds == {"SyscallError", "ProtocolError"}

SecondShutdown(c) ==
    /\ ret.op = "shutdown" /\ ret.c = c /\ ret.pre = "Established"
    /\ obj[c].st = "alive" /\ obj'[c].st = "alive"
    /\ ret'.op = "shutdown" /\ ret'.c = c /\ ret'.pre = eng[c].hs
    /\ ret' # ret

\* C9 (as claimed): of two shutdown calls in succession from Established
\* (the engine reporting no fatal error to either), the second one's result
\* says the connection is closed, and it sends no further close notification.
C9_ShutdownIdempotent ==
    [][\A c \in Conns :
         (SecondShutdown(c) /\ ret.kind = "ok" /\ ret'.kind \notin FatalKinds)
         => /\ ret'.kind = "ok" /\ ret'.val = 1
            /\ eng'[c].closeNotifies = eng[c].closeNotifies]_vars

\* C9 (amended): of two shutdown calls in succession from Established, the
\* first, when it returns, returns 0 having sent the one close notification;
\* the second sends no further one and returns 1, the connection then being
\* Closed, only if the engine got the peer's notification; otherwise it
\* raises WantRead or WantWrite (or a fatal classification).
C9_SecondShutdownSendsNothing ==
    [][\A c \in Conns :
         (SecondShutdown(c) /\ ret.kind = "ok")
         => /\ ret.val = 0
            /\ eng[c].closeNotifies = 1
            /\ eng'[c].closeNotifies = 1
            /\ ret'.kind \in {"ok", "WantRead", "WantWrite"} \cup FatalKinds
            /\ ret'.kind = "ok" => (ret'.val = 1 /\ eng'[c].hs = "Closed")]_vars

C9_Witness ==
    /\ ret.op = "shutdown" /\ ret.pre = "ShuttingDown" /\ ret.kind = "WantRead"
    /\ eng[ret.c].closeNotifies = 1 /\ eng[ret.c].hs = "ShuttingDown"

\* C10 (as claimed): a call that fails returns with the engine's error queue
\* empty, and the diagnostic it carries holds only entries of that call.
C10_FailureLeavesQueueEmpty ==
    ret.kind \in FatalKinds \cup {"OpenSSLError", "ValueError"}
    => /\ errQueue = <<>>
       /\ \A i \in 1..Len(ret.diag) : ret.diag[i] = ret.op

\* C18 (as claimed): the reference count of an SSL_CTX wrapper is at least
\* the number of live SSL objects created from it, and once every SSL object
\* created from it has been destroyed the count is back at its initial value.
C18_CtxCountTracksLive ==
    \A x \in Ctxs :
      LET live == { c \in Conns : obj[c].st = "alive" /\ obj[c].sslCtx_Object = x }
          gone == { c \in Conns : obj[c].st = "dead" /\ obj[c].sslCtx_Object = x }
      IN /\ ctxRefcnt[x] >= 1 + Cardinality(live)
         /\ (live = {} /\ gone # {}) => ctxRefcnt[x] = 1

\* C20 (as claimed): the BIO bound to the SSL when it is destroyed has not
\* been freed before, and the destroy frees it exactly once, in the step
\* that frees the SSL.
C20_InternalBioFreedOnce ==
    [][\A c \in Conns :
         (obj[c].st = "alive" /\ obj'[c].st = "dead" /\ eng[c].rbio # NULL)
         => /\ bioFreeCount[eng[c].rbio] = 0
            /\ bioFreeCount'[eng[c].rbio] = 1
            /\ "free_rbio" \in Range(relLog'[c])]_vars

\* C15 (as claimed): set_verify with an integer other than the four
\* verification modes raises and leaves the SSL untouched; with one of the
\* four it sets the verification mode to that integer.
C15_SetVerifyRejectsUnknown ==
    [][\A c \in Conns :
         (ret'.op = "set_verify" /\ ret'.c = c)
         => IF ret'.val = 0 /\ ret'.res \in {0, 1, 2, 4}
            THEN /\ ret'.kind = "None"
                 /\ eng'[c] = [eng[c] EXCEPT !.verify_mode = ret'.res]
            ELSE /\ ret'.kind = "ValueError"
                 /\ eng' = eng]_vars

\* the cipher the three queries are to answer for: the one chosen by the
\* handshake in progress if there is one, else the one of the session
CipherToReport(e) == IF e.new_cipher # NULL THEN e.new_cipher ELSE e.cipher

\* C13 (as claimed): get_cipher_name, get_cipher_bits and
\* get_cipher_protocol_id each answer for the cipher chosen by the handshake
\* in progress when there is one, else for the cipher of the session, and
\* give None (0 for the bits) only when there is neither.
C13_CipherQueriesAgree ==
    \A c \in Conns :
      (ret.c = c /\ obj[c].st = "alive")
      => LET k == CipherToReport(eng[c])
         IN /\ ret.op = "get_cipher_name"
                 => IF k = NULL THEN ret.kind = "None"
                    ELSE ret.kind = "ok" /\ ret.diag = SSL_CIPHER_get_name(k)
            /\ ret.op = "get_cipher_bits"
                 => ret.val = SSL_CIPHER_get_bits(k)
            /\ ret.op = "get_cipher_protocol_id"
                 => IF k = NULL THEN ret.kind = "None"
                    ELSE ret.kind = "ok" /\ ret.val = CipherProtocolId(k)

\* C14: get_cipher_description(name) returns the description of the first
\* cipher of the SSL's cipher list whose name is exactly name, and None when
\* the list has no cipher of that name (an empty list, a name that is a
\* prefix or a different-case variant of a listed name).
C14_DescriptionOfFirstExactMatch ==
    \A c \in Conns :
      (ret.op = "get_cipher_description" /\ ret.c = c)
      => LET sk == eng[c].cipher_list
             hits == { i \in 1..Len(sk) : SSL_CIPHER_get_name(sk[i]) = ret.arg }
         IN IF hits = {}
            THEN ret.kind = "None" /\ ret.diag = <<>>
            ELSE /\ ret.kind = "ok"
                 /\ \E i \in hits :
                      /\ \A j \in hits : i <= j
                      /\ ret.diag = SSL_CIPHER_description(sk[i])

C14_Witness ==
    /\ ret.op = "get_cipher_description" /\ ret.kind = "None"
    /\ ret.arg = <<"A", "E">>
    /\ eng[ret.c].cipher_list = <<"c_rc4v2", "c_aes", "c_rc4v3">>

\* C11: every X509 wrapper handed out by get_peer_certificate or in the list
\* of get_peer_cert_chain owns what it points to: a duplicate of its own,
\* or a reference of its own on the engine's certificate.  So the certificate
\* of a wrapper is alive whatever was called on the SSL since, its
\* destruction included, and a wrapper released leaves the engine its own
\* reference on every certificate of the chain it still uses.
C11_HandedCertificatesOwned ==
    \A c \in Conns, i \in ChainIdx :
      /\ held.x509[c][i] >= 0 /\ held.copies >= 0
      /\ x509Refcnt[c][i]
            >= held.x509[c][i]
               + (IF obj[c].st = "alive" /\ HasPeerCert(eng[c], i) THEN 1 ELSE 0)

C11_Witness ==
    /\ obj["c1"].st = "dead"
    /\ held.x509["c1"][1] > 0 /\ x509Refcnt["c1"][1] = held.x509["c1"][1]
    /\ held.copies > 0
    /\ ret.op = "dealloc"

\* C12 (as claimed): get_tlsext_status_ocsp_resp returns None exactly when
\* no stapled data was provided, raises ValueError when the data is
\* malformed, and for well-formed data returns a response whose chain is a
\* duplicate of the peer chain, of the same length and in the same order.
C12_OcspThreeOutcomes ==
    \A c \in Conns :
      (ret.op = "get_ocsp" /\ ret.c = c)
      => /\ (ret.kind = "None") <=> (ret.arg = <<"absent">>)
         /\ (ret.arg = <<"malformed">>) => ret.kind = "ValueError"
         /\ (ret.arg = <<"wellformed">>)
              => /\ ret.kind = "ok"
                 /\ ~eng[c].peer_chain.null
                 /\ ret.diag = eng[c].peer_chain.certs

\* C16: on a loop-back pair (both SSL objects alive and bound to their
\* BIOs, each the other's peer, one of them at least in client mode) no
\* do_handshake call of either side returns ProtocolError or SyscallError.
C16_LoopbackHandshakeNeverFatal ==
    \A c \in Conns :
      (/\ ret.op = "do_handshake" /\ ret.c = c
       /\ env.loopback
       /\ \E d \in Conns : eng[d].client
       /\ \A d \in Conns : obj[d].st = "alive" /\ eng[d].rbio = BioOf(d))
      => ret.kind \notin {"ProtocolError", "SyscallError"}

\* C19: a Session returned by get_session is owned by the caller. A
\* get_session call that returns a Session adds exactly one reference to the
\* session of the SSL object and to no other session; every session keeps at
\* least one reference for each Session wrapper the caller holds and one for
\* each live SSL object it is the session of, so a wrapper stays valid after
\* the SSL object it came from is destroyed and may be passed to set_session
\* of another; set_session raises OpenSSLError exactly when the engine
\* answers 0 and then leaves the session of the SSL object as it was.
SessionUsers(s) == { c \in Conns : obj[c].st = "alive" /\ eng[c].session = s }

C19_SessionOwnedByHandle ==
    /\ [](\A s \in SessionIds :
            /\ held.sess[s] >= 0
            /\ sessRefcnt[s] >= held.sess[s] + Cardinality(SessionUsers(s)))
    /\ [][\A c \in Conns :
            (ret'.op = "get_session" /\ ret'.c = c /\ ret'.kind = "ok")
            => /\ eng[c].session # NULL
               /\ ret'.diag = <<eng[c].session>>
               /\ held'.sess[eng[c].session] = held.sess[eng[c].session] + 1
               /\ \A s \in SessionIds :
                    sessRefcnt'[s]
                      = sessRefcnt[s] + (IF s = eng[c].session THEN 1 ELSE 0)]_vars
    /\ [][\A c \in Conns :
            (ret'.op = "set_session" /\ ret'.c = c)
            => /\ (ret'.res = 0) <=> (ret'.kind = "OpenSSLError")
               /\ (ret'.res # 0) <=> (ret'.kind = "None")
               /\ (ret'.res = 0)
                    => /\ eng'[c].session = eng[c].session
                       /\ sessRefcnt' = sessRefcnt]_vars

\* the Session read from c1 is installed in c2 after c1 was destroyed
C19_Witness ==
    /\ obj["c1"].st = "dead"
    /\ obj["c2"].st = "alive"
    /\ held.sess["c1"] > 0
    /\ eng["c2"].session = "c1"
    /\ ret.op = "set_session" /\ ret.c = "c2" /\ ret.kind = "None"


\* the outcomes raise_OpenSSL_ssl_error gives a result that is not a success
ClassifiedKinds ==
    {"WantRead", "WantWrite", "ZeroReturn", "ProtocolError", "SyscallError"}

\* k <= hi * 2^32 + (lo mod 2^32)
AtMost(k, hi, lo) == hi > 0 \/ lo < 0 \/ k <= lo

\* C21: read(max_length) returns data only when the engine answered a
\* positive count k, and the bytes returned are then exactly k long with
\* 1 <= k <= max_length; every non-positive answer of the engine (also for
\* max_length = 0) becomes a classified outcome and never an empty byte
\* string, whatever max_length the argument parser accepted.
C21_ReadReturnsEngineCount ==
    ret.op = "read"
    => /\ (ret.kind = "ok")
            => /\ ret.calls = 1 /\ ret.res > 0
               /\ ret.val = ret.res
               /\ 1 <= ret.val /\ AtMost(ret.val, ret.arg[1], ret.arg[2])
       /\ (ret.calls = 1 /\ ret.res <= 0) => ret.kind \in ClassifiedKinds
       /\ (ret.calls = 1 /\ ret.res > 0) => ret.kind = "ok"

\* a read of up to 2 bytes that returned 1 byte
C21_Witness ==
    /\ ret.op = "read" /\ ret.kind = "ok"
    /\ ret.arg = <<0, 2>> /\ ret.val = 1

\* C22: write(bytes) returns on success the count n of bytes the engine
\* took, 1 <= n <= len(bytes); a non-positive answer of the engine is never
\* returned as a count but as WantWrite, WantRead or a fatal error, so the
\* remainder bytes[n:] the caller submits next is shorter by exactly the
\* bytes taken.
C22_WriteReturnsConsumedCount ==
    ret.op = "write"
    => /\ ret.calls = 1
       /\ (ret.kind = "ok")
            => /\ ret.res > 0 /\ ret.val = ret.res
               /\ 1 <= ret.val /\ ret.val <= ret.arg[1]
       /\ (ret.res <= 0)
            => ret.kind \in {"WantWrite", "WantRead", "ProtocolError",
                             "SyscallError"}
       /\ (ret.res > 0) => ret.kind = "ok"

\* a write of 2 bytes of which the engine took 1
C22_Witness ==
    /\ ret.op = "write" /\ ret.kind = "ok"
    /\ ret.arg = <<2>> /\ ret.val = 1

\* the calls that run an I/O primitive of the engine
IOCalls == {"do_handshake", "read", "write", "write_early_data", "shutdown"}

C24_ChainListMatchesEngine ==
    \A c \in Conns :
      (ret.op = "get_chain" /\ ret.c = c /\ ret.kind # "MemoryError")
      => LET chain == eng[c].peer_chain
         IN /\ chain.null <=> (ret.kind = "ValueError" /\ ret.res = 0)
            /\ (ret.kind = "ok")
                 => /\ Len(ret.diag) = Len(chain.certs)
                    /\ \A i \in 1..Len(chain.certs) : ret.diag[i] = chain.certs[i]
            /\ (~chain.null /\ chain.certs = <<>>)
                 => ret.kind = "ok" /\ ret.diag = <<>>

\* the list of a chain of two: the leaf, then the CA
C24_Witness ==
    /\ ret.op = "get_chain" /\ ret.kind = "ok"
    /\ ret.diag = <<"leaf", "ca">>
    /\ eng["c1"].peer_chain.certs = <<"leaf", "ca">>


\* C25: a create that fails because SSL_new() fails returns an error and,
\* the partially built object released, leaves the reference count of
\* every SSL_CTX wrapper as it was before the call.
C25_FailedCreateRestoresCtxCount ==
    [][\A c \in Conns :
         (/\ ret'.op = "new" /\ ret'.c = c /\ ret'.kind = "OpenSSLError"
          /\ obj[c].st = "unborn" /\ obj'[c].st = "dead")
         => ctxRefcnt' = ctxRefcnt]_vars


\* C26: the native buffer of a network BIO is freed at most once however
\* many SSL objects adopted its wrapper, and once every SSL object that
\* adopted it has been destroyed (in any order, the caller still holding the
\* wrapper or not) it has been freed exactly once and the wrapper names no
\* native buffer.
C26_NetBioFreedOnceAmongHolders ==
    \A b \in NetBIOs :
      /\ bioFreeCount[b] <= 1
      /\ (/\ \E c \in Conns : refsTaken[c][b] > 0
          /\ \A c \in Conns : refsTaken[c][b] > 0 => obj[c].st = "dead")
         => (bioFreeCount[b] = 1 /\ ~bioPtr[b])


\* C27: get_client_CA_list is a pure query: a call that returns a list
\* leaves the engine's list of CA names as it was and returns its names in
\* its order, so a second call right after it returns the same list.
C27_ClientCAListIsPureQuery ==
    [][\A c \in Conns :
         (ret'.op = "get_client_CA_list" /\ ret'.c = c /\ ret'.kind = "ok")
         => /\ eng'[c].ca_names = eng[c].ca_names
            /\ ret'.diag = eng[c].ca_names]_vars


\* the calls that hand native objects to the caller
HandingCalls == {"get_ocsp", "get_chain", "get_peer_certificate", "get_session"}

\* C28: on every path through get_tlsext_status_ocsp_resp,
\* get_peer_cert_chain, get_peer_certificate and get_session, the error
\* paths too, each native object the call made or took a reference on is
\* inside the value it returned or was released before it returned.
C28_NativeObjectsHandedOrReleased ==
    ret.op \in HandingCalls
    => /\ ret.made = ret.given + ret.freed
       /\ (ret.kind # "ok") => ret.given = 0

====
